---- MODULE Spec2Model ----
(***************************************************************************)
(* Model of the QC ALT video gateway (src/server.py): segment resolution,  *)
(* the machine-to-camera table, the three production operations around the *)
(* external encoder, and the retention sweep of the temporary root.        *)
(***************************************************************************)
EXTENDS Integers, Sequences, FiniteSets, TLC

VARIABLES
    SEG_MIN,      \* config: segment_minutes
    tin,          \* resolver scenario: the inputs drawn (camera, raw timestamp)
    tout,         \* resolver scenario: what the resolver returned for them
    csv,          \* the machine map file: [exists, rows]
    heap,         \* the list objects of the process, by identity
    MACHINE_MAP,  \* the global: a reference to a list object
    loader,       \* the activation of load_machine_map in progress, if any
    lookup,       \* the activation of camera_for_machine in progress, or its result
    SIMULATE,     \* config: allow_simulation
    TTL_MIN,      \* config: ttl_minutes
    now,          \* the wall clock, in minutes
    ffmpeg,       \* whether the file FFMPEG names exists
    videos,       \* the recording files that exist under VIDEO_ROOT
    temp,         \* the tree under TEMP_DIR
    evid,         \* the tree under EVID_DIR
    nreq,         \* requests handled so far
    runs,         \* encoder processes started: [req, op, out]
    last          \* the last request handled and its response

tvars == <<tin, tout>>
mvars == <<csv, heap, MACHINE_MAP, loader, lookup>>
rvars == <<SIMULATE, TTL_MIN, now, ffmpeg, videos, temp, evid, nreq, runs, last>>
vars == <<SEG_MIN, tvars, mvars, rvars>>

(***************************************************************************)
(* Text: strings the code formats or strips are sequences of characters.   *)
(***************************************************************************)
Digits == <<"0", "1", "2", "3", "4", "5", "6", "7", "8", "9">>

\* strftime("%H"), ("%M"), ("%S"), ("%m"), ("%d"): two digits, zero padded
Pad2(n) == <<Digits[((n \div 10) % 10) + 1], Digits[(n % 10) + 1]>>

\* strftime("%Y"): four digits
Pad4(n) == Pad2(n \div 100) \o Pad2(n % 100)

(***************************************************************************)
(* Timestamps.  A request timestamp is the text of an ISO timestamp, kept  *)
(* as its fields: [year, month, day, hour, minute, second, microsecond,    *)
(* tz], tz being the zone suffix of the text ("" when it has none).        *)
(***************************************************************************)
TZ_OFFSET_MIN == -360

IsLeap(y) == (y % 4 = 0) /\ ((y % 100 # 0) \/ (y % 400 = 0))

DaysInMonth(y, m) ==
    IF m = 2 THEN (IF IsLeap(y) THEN 29 ELSE 28)
    ELSE IF m \in {4, 6, 9, 11} THEN 30 ELSE 31

\* datetime.fromisoformat accepts the text iff every field is in range
WellFormed(ts) ==
    /\ ts.month \in 1..12
    /\ ts.day >= 1 /\ ts.day <= DaysInMonth(ts.year, ts.month)
    /\ ts.hour \in 0..23
    /\ ts.minute \in 0..59
    /\ ts.second \in 0..59
    /\ ts.microsecond \in 0..999999

\* the tzinfo of the parsed datetime, as minutes east of UTC
TzInfo(ts) ==
    IF ts.tz = "" THEN TZ_OFFSET_MIN
    ELSE IF ts.tz = "Z" THEN 0
    ELSE IF ts.tz = "+05:30" THEN 330
    ELSE TZ_OFFSET_MIN

\* parse_iso_ts: 400 on malformed text, else the datetime with a tzinfo
parse_iso_ts(ts) ==
    IF ~WellFormed(ts)
    THEN [ok |-> FALSE, status |-> 400]
    ELSE [ok |-> TRUE, status |-> 200,
          dt |-> [year |-> ts.year, month |-> ts.month, day |-> ts.day,
                  hour |-> ts.hour, minute |-> ts.minute, second |-> ts.second,
                  microsecond |-> ts.microsecond, tzinfo |-> TzInfo(ts)]]

segment_anchor_nomul(dt, seg_min) ==
    [dt EXCEPT !.minute = dt.minute \div seg_min, !.second = 0, !.microsecond = 0]

segment_anchor(dt, seg_min) ==
    LET mm == (dt.minute \div seg_min) * seg_min
    IN  [dt EXCEPT !.minute = mm, !.second = 0, !.microsecond = 0]

\* days from 0001-01-01 to the date, as datetime's ordinal
RECURSIVE DaysBeforeMonth(_, _)
DaysBeforeMonth(y, m) ==
    IF m <= 1 THEN 0 ELSE DaysBeforeMonth(y, m - 1) + DaysInMonth(y, m - 1)

Ordinal(dt) ==
    LET y == dt.year - 1
    IN  y * 365 + (y \div 4) - (y \div 100) + (y \div 400)
        + DaysBeforeMonth(dt.year, dt.month) + dt.day

\* seconds into the day, on the UTC clock
DaySeconds(dt) == (dt.hour * 60 + dt.minute - dt.tzinfo) * 60 + dt.second

\* dt - anchor as a timedelta (days, seconds, microseconds), normalised so
\* that 0 <= microseconds < 10^6 and 0 <= seconds < 86400
TimeDelta(a, b) ==
    LET us0 == a.microsecond - b.microsecond
        s0  == DaySeconds(a) - DaySeconds(b) + (IF us0 < 0 THEN -1 ELSE 0)
        us  == IF us0 < 0 THEN us0 + 1000000 ELSE us0
        dq  == IF s0 >= 0 THEN s0 \div 86400 ELSE -((86399 - s0) \div 86400)
    IN  [days |-> Ordinal(a) - Ordinal(b) + dq,
         seconds |-> s0 - dq * 86400,
         microseconds |-> us]

\* int(td.total_seconds()): truncation toward zero
TotalSecondsInt(td) ==
    LET whole == td.days * 86400 + td.seconds
    IN  IF whole < 0 /\ td.microseconds > 0 THEN whole + 1 ELSE whole

offset_within_segment(dt, anchor) == TotalSecondsInt(TimeDelta(dt, anchor))

calc_anchor_and_offset(dt) ==
    LET anchor == segment_anchor(dt, SEG_MIN)
    IN  [anchor |-> anchor, offset |-> offset_within_segment(dt, anchor)]

\* DIRECTORY_TEMPLATE.format(**repl) and FILENAME_PATTERN.format(**repl) under
\* VIDEO_ROOT, for the default templates "{camera_id}\\{YYYY}\\{MM}\\{DD}" and
\* "{camera_id}_{YYYY}{MM}{DD}_{HH}{mm}{SS}.mp4"
FilledTemplate(repl) ==
    <<"VIDEO_ROOT", "/">> \o repl.camera_id \o <<"\\">> \o repl.YYYY \o <<"\\">>
        \o repl.MM \o <<"\\">> \o repl.DD \o <<"/">>
        \o repl.camera_id \o <<"_">> \o repl.YYYY \o repl.MM \o repl.DD
        \o <<"_">> \o repl.HH \o repl.mm \o repl.SS \o <<".", "m", "p", "4">>

build_video_path_raw(camera_id, dt) ==
    FilledTemplate([camera_id |-> camera_id,
                    YYYY |-> Pad4(dt.year), MM |-> Pad2(dt.month),
                    DD |-> Pad2(dt.day), HH |-> Pad2(dt.hour),
                    mm |-> Pad2(dt.minute), SS |-> Pad2(dt.second)])

build_video_path(camera_id, dt) ==
    LET dt0 == segment_anchor(dt, SEG_MIN)
    IN  FilledTemplate([camera_id |-> camera_id,
                        YYYY |-> Pad4(dt.year), MM |-> Pad2(dt.month),
                        DD |-> Pad2(dt.day), HH |-> Pad2(dt0.hour),
                        mm |-> Pad2(dt0.minute), SS |-> Pad2(dt0.second)])

(***************************************************************************)
(* The machine-to-camera table.  A CSV row is [Machine_ID, camera_id,      *)
(* priority], each the text of the cell; a cell the row lacks reads as     *)
(* None, which `or ""` / `or "1"` treat like the empty text.               *)
(***************************************************************************)
Alphabet ==
    <<" ", "+", "-", "0", "1", "2", "3", "4", "5", "6", "7", "8", "9",
      "A", "B", "C", "K", "M", "U", "_", "x">>

CodePoint(ch) == CHOOSE i \in 1..Len(Alphabet) : Alphabet[i] = ch

IsDigit(ch) == \E i \in 1..10 : Digits[i] = ch

DigitValue(ch) == (CHOOSE i \in 1..10 : Digits[i] = ch) - 1

\* str.strip(): leading and trailing blanks removed
RECURSIVE LStrip(_)
LStrip(t) == IF t # <<>> /\ Head(t) = " " THEN LStrip(Tail(t)) ELSE t

RECURSIVE RStrip(_)
RStrip(t) ==
    IF t # <<>> /\ t[Len(t)] = " " THEN RStrip(SubSeq(t, 1, Len(t) - 1)) ELSE t

Strip(t) == RStrip(LStrip(t))

\* str < str: code point order, a proper prefix first
RECURSIVE TextLess(_, _)
TextLess(a, b) ==
    IF b = <<>> THEN FALSE
    ELSE IF a = <<>> THEN TRUE
    ELSE IF Head(a) # Head(b) THEN CodePoint(Head(a)) < CodePoint(Head(b))
    ELSE TextLess(Tail(a), Tail(b))

RECURSIVE DigitsValue(_, _)
DigitsValue(t, acc) ==
    IF t = <<>> THEN acc ELSE DigitsValue(Tail(t), acc * 10 + DigitValue(Head(t)))

\* int(text): an optional sign and at least one digit, else ValueError
IntOk(t) ==
    LET body == IF t # <<>> /\ Head(t) \in {"+", "-"} THEN Tail(t) ELSE t
    IN  body # <<>> /\ \A i \in 1..Len(body) : IsDigit(body[i])

IntOf(t) ==
    IF Head(t) = "-" THEN -DigitsValue(Tail(t), 0)
    ELSE IF Head(t) = "+" THEN DigitsValue(Tail(t), 0)
    ELSE DigitsValue(t, 0)

\* (row.get("priority") or "1").strip()
PriorityText(row) == Strip(IF row.priority = <<>> THEN <<"1">> ELSE row.priority)

\* the try block of the loop: the row raises iff int() does
RowOk(row) == IntOk(PriorityText(row))

ParseRow(row) ==
    [m |-> Strip(row.Machine_ID), c |-> Strip(row.camera_id),
     p |-> IntOf(PriorityText(row))]

\* the sort key (r[0], r[2]), compared as tuples
KeyLess(a, b) == TextLess(a.m, b.m) \/ (a.m = b.m /\ a.p < b.p)

\* list.sort is stable: a row goes after every row whose key is not greater
RECURSIVE InsertRow(_, _)
InsertRow(sorted, r) ==
    IF sorted = <<>> THEN <<r>>
    ELSE IF KeyLess(r, Head(sorted)) THEN <<r>> \o sorted
    ELSE <<Head(sorted)>> \o InsertRow(Tail(sorted), r)

RECURSIVE SortRows(_)
SortRows(rows) ==
    IF rows = <<>> THEN <<>>
    ELSE InsertRow(SortRows(SubSeq(rows, 1, Len(rows) - 1)), rows[Len(rows)])

RECURSIVE ParseRows(_)
ParseRows(rows) ==
    IF rows = <<>> THEN <<>>
    ELSE (IF RowOk(Head(rows)) THEN <<ParseRow(Head(rows))>> ELSE <<>>)
            \o ParseRows(Tail(rows))

load_machine_map(csv_path) ==
    IF ~csv_path.exists THEN <<>> ELSE SortRows(ParseRows(csv_path.rows))

None == [found |-> FALSE, cam |-> <<>>]

Some(c) == [found |-> TRUE, cam |-> c]

\* [c for m,c,p in table if m == machine]
RECURSIVE Candidates(_, _)
Candidates(table, machine) ==
    IF table = <<>> THEN <<>>
    ELSE (IF Head(table).m = machine THEN <<Head(table).c>> ELSE <<>>)
            \o Candidates(Tail(table), machine)

LastOrNone(candidates) ==
    IF candidates # <<>> THEN Some(candidates[Len(candidates)]) ELSE None

\* candidates[0] if candidates else None
FirstOrNone(candidates) ==
    IF candidates # <<>> THEN Some(candidates[1]) ELSE None

camera_for_machine(machine) ==
    FirstOrNone(Candidates(heap[MACHINE_MAP], machine))

\* list objects: `out = []` makes a new one, unreferenced ones are collected
NumLists == 3
ListIds == 1..NumLists

Referenced(id) ==
    \/ id = MACHINE_MAP
    \/ loader.pc \in {"rows", "assign"} /\ loader.out = id
    \/ lookup.pc = "iter" /\ lookup.it = id

SameList == MACHINE_MAP

NewList == CHOOSE id \in ListIds : ~Referenced(id)

LoaderIdle == [pc |-> "idle"]
LoaderDone == [pc |-> "done"]
LookupIdle == [pc |-> "idle"]

NotMap == <<SEG_MIN, tvars, rvars>>

\* module import, line 116: MACHINE_MAP = load_machine_map(MAP_CSV)
ImportMap ==
    /\ loader.pc = "idle" /\ lookup.pc = "idle"
    /\ MACHINE_MAP = 0
    /\ heap' = [heap EXCEPT ![1] = load_machine_map(csv)]
    /\ MACHINE_MAP' = 1
    /\ UNCHANGED <<csv, loader, lookup>>
    /\ UNCHANGED NotMap

\* camera_for_machine, run without interruption
Lookup(machine) ==
    /\ MACHINE_MAP # 0
    /\ loader.pc = "idle"
    /\ lookup.pc # "iter"
    /\ lookup' = [pc |-> "done", machine |-> machine,
                  result |-> camera_for_machine(machine),
                  old |-> heap[MACHINE_MAP], new |-> heap[MACHINE_MAP]]
    /\ UNCHANGED <<csv, heap, MACHINE_MAP, loader>>
    /\ UNCHANGED NotMap

\* what the collector leaves: the lists still referenced from `refs`
Collect(h, refs) == [id \in ListIds |-> IF id \in refs THEN h[id] ELSE <<>>]

\* on_start, line 185, entering load_machine_map: `out = []`, or `return []`
\* when the file does not exist
LoadBegin ==
    /\ MACHINE_MAP # 0
    /\ loader.pc = "idle"
    /\ LET out == NewList
       IN  /\ heap' = [heap EXCEPT ![out] = <<>>]
           /\ loader' = [pc |-> IF csv.exists THEN "rows" ELSE "assign",
                         out |-> out, i |-> 1]
    /\ UNCHANGED <<csv, MACHINE_MAP, lookup>>
    /\ UNCHANGED NotMap

\* one turn of `for row in rd`: out.append(...), or the row is skipped
LoadRow ==
    /\ loader.pc = "rows"
    /\ loader.i <= Len(csv.rows)
    /\ LET row == csv.rows[loader.i]
       IN  heap' = [heap EXCEPT ![loader.out] =
                        IF RowOk(row) THEN Append(@, ParseRow(row)) ELSE @]
    /\ loader' = [loader EXCEPT !.i = @ + 1]
    /\ UNCHANGED <<csv, MACHINE_MAP, lookup>>
    /\ UNCHANGED NotMap

\* out.sort(key=...), in place, then `return out`
LoadSort ==
    /\ loader.pc = "rows"
    /\ loader.i > Len(csv.rows)
    /\ heap' = [heap EXCEPT ![loader.out] = SortRows(@)]
    /\ loader' = [loader EXCEPT !.pc = "assign"]
    /\ UNCHANGED <<csv, MACHINE_MAP, lookup>>
    /\ UNCHANGED NotMap

\* MACHINE_MAP = <the list returned>
LoadAssign ==
    /\ loader.pc = "assign"
    /\ MACHINE_MAP' = loader.out
    /\ loader' = LoaderDone
    /\ heap' = Collect(heap, {loader.out}
                          \cup (IF lookup.pc = "iter" THEN {lookup.it} ELSE {}))
    /\ lookup' = IF lookup.pc = "iter"
                 THEN [lookup EXCEPT !.new = heap[loader.out]]
                 ELSE lookup
    /\ UNCHANGED csv
    /\ UNCHANGED NotMap

\* camera_for_machine: the comprehension takes the list MACHINE_MAP names now
LookupBegin(machine) ==
    /\ MACHINE_MAP # 0
    /\ lookup.pc # "iter"
    /\ lookup' = [pc |-> "iter", machine |-> machine, it |-> MACHINE_MAP,
                  pos |-> 1, candidates |-> <<>>,
                  old |-> heap[MACHINE_MAP], new |-> heap[MACHINE_MAP]]
    /\ UNCHANGED <<csv, heap, MACHINE_MAP, loader>>
    /\ UNCHANGED NotMap

\* one turn of the comprehension's loop over that list
LookupNext ==
    /\ lookup.pc = "iter"
    /\ lookup.pos <= Len(heap[lookup.it])
    /\ LET r == heap[lookup.it][lookup.pos]
       IN  lookup' = [lookup EXCEPT
                        !.pos = @ + 1,
                        !.candidates = IF r.m = lookup.machine
                                       THEN Append(@, r.c) ELSE @]
    /\ UNCHANGED <<csv, heap, MACHINE_MAP, loader>>
    /\ UNCHANGED NotMap

\* the list is exhausted: return candidates[0] if candidates else None
LookupReturn ==
    /\ lookup.pc = "iter"
    /\ lookup.pos > Len(heap[lookup.it])
    /\ lookup' = [pc |-> "done", machine |-> lookup.machine,
                  result |-> FirstOrNone(lookup.candidates),
                  old |-> lookup.old, new |-> lookup.new]
    /\ heap' = Collect(heap, {MACHINE_MAP}
                          \cup (IF loader.pc \in {"rows", "assign"}
                                THEN {loader.out} ELSE {}))
    /\ UNCHANGED <<csv, MACHINE_MAP, loader>>
    /\ UNCHANGED NotMap

\* the machine map file is edited between the import and the startup event
EditCsv(file) ==
    /\ loader.pc = "idle"
    /\ file # csv
    /\ csv' = file
    /\ UNCHANGED <<heap, MACHINE_MAP, loader, lookup>>
    /\ UNCHANGED NotMap

(***************************************************************************)
(* The filesystem under TEMP_DIR and EVID_DIR.  A directory's mtime moves  *)
(* when an entry is created in it or removed from it.                      *)
(***************************************************************************)
AbsentDir == [present |-> FALSE, mtime |-> 0, entries |-> {}]

EmptyTemp == [hls |-> AbsentDir, snap |-> AbsentDir]

EmptyEvid == [snapshots |-> AbsentDir, clips |-> AbsentDir]

\* ensure_dir(p) for a directory p directly under the root: mkdir, exist_ok
EnsureTop(d) == IF d.present THEN d ELSE [present |-> TRUE, mtime |-> now, entries |-> {}]

Names(d) == {e.name : e \in d.entries}

\* ensure_dir(TEMP_DIR / "hls" / session_id): parents=True, exist_ok=True
EnsureSession(d, name) ==
    LET top == EnsureTop(d)
    IN  IF name \in Names(top) THEN top
        ELSE [top EXCEPT !.mtime = now,
                         !.entries = @ \cup {[name |-> name, mtime |-> now,
                                               playlist |-> FALSE]}]

\* the encoder writes master.m3u8 and the segments into the session directory
WritePlaylist(d, name) ==
    [d EXCEPT !.entries =
        {IF e.name = name THEN [e EXCEPT !.mtime = now, !.playlist = TRUE] ELSE e
            : e \in @}]

\* the encoder writes the file `name` into the directory
WriteFile(d, name) ==
    IF name \in Names(d)
    THEN [d EXCEPT !.entries =
            {IF e.name = name THEN [e EXCEPT !.mtime = now] ELSE e : e \in @}]
    ELSE [d EXCEPT !.mtime = now,
                   !.entries = @ \cup {[name |-> name, mtime |-> now]}]

(***************************************************************************)
(* The production operations.  `src` is Optional[Path]; `enc` is what the  *)
(* encoder process does when run: its exit status and whether it writes    *)
(* its output; `pre` tells whether the output exists before the run.       *)
(***************************************************************************)
HLS_SEC == 4

NoPath == <<>>
NoSeek == -1
NoValue == -1

NoSrc == [some |-> FALSE, path |-> NoPath]

SomeSrc(path) == [some |-> TRUE, path |-> path]

\* `src is None or not src.exists()`
SrcMissing(src) == ~src.some \/ src.path \notin videos

\* str(src)
SrcText(src) == IF src.some THEN src.path ELSE <<"None">>

ffmpeg_cmd_exists == ffmpeg

NoCmd ==
    [kind |-> "none", lavfi |-> FALSE, ss |-> NoSeek, i |-> NoPath,
     t |-> NoValue, frames |-> NoValue, hls_time |-> NoValue, out |-> NoPath]

\* the argument vectors, by the arguments that vary
HlsSynthCmd(dur_s, m3u8_path) ==
    [kind |-> "hls", lavfi |-> TRUE, ss |-> NoSeek, i |-> NoPath,
     t |-> dur_s, frames |-> NoValue, hls_time |-> HLS_SEC, out |-> m3u8_path]

HlsRealCmd(src, start_s, dur_s, m3u8_path) ==
    [kind |-> "hls", lavfi |-> FALSE, ss |-> start_s, i |-> SrcText(src),
     t |-> dur_s, frames |-> NoValue, hls_time |-> HLS_SEC, out |-> m3u8_path]

SnapSynthCmd(out_path) ==
    [kind |-> "snapshot", lavfi |-> TRUE, ss |-> NoSeek, i |-> NoPath,
     t |-> NoValue, frames |-> 1, hls_time |-> NoValue, out |-> out_path]

SnapRealCmd(src, at_s, out_path) ==
    [kind |-> "snapshot", lavfi |-> FALSE, ss |-> at_s, i |-> SrcText(src),
     t |-> NoValue, frames |-> 1, hls_time |-> NoValue, out |-> out_path]

ClipSynthCmd(dur_s, out_path) ==
    [kind |-> "clip", lavfi |-> TRUE, ss |-> NoSeek, i |-> NoPath,
     t |-> dur_s, frames |-> NoValue, hls_time |-> NoValue, out |-> out_path]

ClipRealCmd(src, start_s, dur_s, out_path) ==
    [kind |-> "clip", lavfi |-> FALSE, ss |-> start_s, i |-> SrcText(src),
     t |-> dur_s, frames |-> NoValue, hls_time |-> NoValue, out |-> out_path]

\* raise HTTPException(status, ...) before any encoder run
Raise(status, mode) ==
    [status |-> status, mode |-> mode, cmd |-> NoCmd, ran |-> 0,
     rc |-> NoValue, wrote |-> FALSE, present |-> FALSE]

SimulateOnly(src) == SIMULATE

\* `SIMULATE and (src is None or not src.exists())`
UseSynthetic(src) == SIMULATE /\ SrcMissing(src)

ExitZeroOnly(rc, present) == rc = 0

\* the negation of `rc != 0 or not out.exists()`
EncodeOk(rc, present) == rc = 0 /\ present

\* rc = run_ffmpeg(cmd), then the check of rc and of the output
run_ffmpeg(cmd, mode, enc, pre) ==
    LET present == pre \/ enc.wrote
    IN  [status |-> IF EncodeOk(enc.rc, present) THEN 200 ELSE 500,
         mode |-> mode, cmd |-> cmd, ran |-> 1,
         rc |-> enc.rc, wrote |-> enc.wrote, present |-> present]

gen_hls_from_source(src, start_s, dur_s, out_dir, enc, pre) ==
    LET m3u8_path == out_dir \o <<"/master.m3u8">>
    IN  IF ~SIMULATE /\ SrcMissing(src) THEN Raise(404, "none")
        ELSE IF UseSynthetic(src)
        THEN IF ~ffmpeg_cmd_exists THEN Raise(500, "synthetic")
             ELSE run_ffmpeg(HlsSynthCmd(dur_s, m3u8_path), "synthetic", enc, pre)
        ELSE IF ~ffmpeg_cmd_exists THEN Raise(500, "real")
             ELSE run_ffmpeg(HlsRealCmd(src, start_s, dur_s, m3u8_path), "real", enc, pre)

gen_snapshot(src, at_s, out_path, enc, pre) ==
    IF UseSynthetic(src)
    THEN IF ~ffmpeg_cmd_exists THEN Raise(500, "synthetic")
         ELSE run_ffmpeg(SnapSynthCmd(out_path), "synthetic", enc, pre)
    ELSE IF ~ffmpeg_cmd_exists
         THEN Raise(500, IF SrcMissing(src) THEN "none" ELSE "real")
    ELSE IF SrcMissing(src) THEN Raise(404, "none")
    ELSE run_ffmpeg(SnapRealCmd(src, at_s, out_path), "real", enc, pre)

export_clip_ffmpeg(src, start_s, dur_s, out_path, enc, pre) ==
    IF UseSynthetic(src)
    THEN IF ~ffmpeg_cmd_exists THEN Raise(500, "synthetic")
         ELSE run_ffmpeg(ClipSynthCmd(dur_s, out_path), "synthetic", enc, pre)
    ELSE IF ~ffmpeg_cmd_exists
         THEN Raise(500, IF SrcMissing(src) THEN "none" ELSE "real")
    ELSE IF SrcMissing(src) THEN Raise(404, "none")
    ELSE run_ffmpeg(ClipRealCmd(src, start_s, dur_s, out_path), "real", enc, pre)

(***************************************************************************)
(* The request handlers.  Each handles one request to its response.        *)
(***************************************************************************)
\* str(n) of a non-negative integer
RECURSIVE DecStr(_)
DecStr(n) == IF n < 10 THEN <<Digits[n + 1]>> ELSE DecStr(n \div 10) \o <<Digits[(n % 10) + 1]>>

\* dt.strftime('%Y%m%dT%H%M%S')
Tag(dt) ==
    Pad4(dt.year) \o Pad2(dt.month) \o Pad2(dt.day) \o <<"T">>
        \o Pad2(dt.hour) \o Pad2(dt.minute) \o Pad2(dt.second)

\* uuid.uuid4().hex[:8]: a value no earlier call returned
Uuid == <<"u">> \o DecStr(nreq)

TruthyAny(cam) == TRUE

\* `if not cam`: None and the empty text are both falsy
Truthy(cam) == cam.found /\ cam.cam # <<>>

NoStamp ==
    [year |-> 0, month |-> 0, day |-> 0, hour |-> 0, minute |-> 0,
     second |-> 0, microsecond |-> 0, tz |-> ""]

NoRequest ==
    [op |-> "none", machine |-> <<>>, ts |-> NoStamp, dur |-> NoValue,
     stage |-> "none", status |-> NoValue, mode |-> "none", cmd |-> NoCmd,
     ran |-> 0, rc |-> NoValue, present |-> FALSE, srcMissing |-> FALSE,
     out |-> NoPath, at |-> 0]

Response(op, machine, ts, dur, stage, src, out, r) ==
    [op |-> op, machine |-> machine, ts |-> ts, dur |-> dur, stage |-> stage,
     status |-> r.status, mode |-> r.mode, cmd |-> r.cmd, ran |-> r.ran,
     rc |-> r.rc, present |-> r.present, srcMissing |-> SrcMissing(src),
     out |-> out, at |-> now]

\* the request is rejected before anything is produced
Reject(op, machine, ts, dur, status) ==
    /\ last' = Response(op, machine, ts, dur, "resolve", NoSrc, NoPath,
                        Raise(status, "none"))
    /\ nreq' = nreq + 1
    /\ UNCHANGED <<temp, evid, runs>>

Started(op, r, out) ==
    IF r.ran = 1 THEN runs \cup {[req |-> nreq + 1, op |-> op, out |-> out]} ELSE runs

\* `src if src.exists() else None`
SrcArg(path) == IF path \in videos THEN SomeSrc(path) ELSE NoSrc

ReqFrame == UNCHANGED <<SEG_MIN, tvars, mvars, SIMULATE, TTL_MIN, now, ffmpeg, videos>>

debug_resolve(machine, ts) ==
    /\ LET p == parse_iso_ts(ts)
           cam == camera_for_machine(machine)
       IN  IF ~p.ok THEN Reject("debug_resolve", machine, ts, NoValue, 400)
           ELSE IF ~Truthy(cam) THEN Reject("debug_resolve", machine, ts, NoValue, 404)
           ELSE LET path == build_video_path(cam.cam, p.dt)
                IN  /\ last' = Response("debug_resolve", machine, ts, NoValue, "resolve",
                                        SrcArg(path), path,
                                        [Raise(200, "none") EXCEPT
                                            !.rc = calc_anchor_and_offset(p.dt).offset])
                    /\ nreq' = nreq + 1
                    /\ UNCHANGED <<temp, evid, runs>>
    /\ ReqFrame

view(machine, ts, dur, enc) ==
    /\ LET p == parse_iso_ts(ts)
           cam == camera_for_machine(machine)
       IN  IF ~p.ok THEN Reject("view", machine, ts, dur, 400)
           ELSE IF ~Truthy(cam) THEN Reject("view", machine, ts, dur, 404)
           ELSE LET src == build_video_path(cam.cam, p.dt)
                    start_s == calc_anchor_and_offset(p.dt).offset
                    session_id == machine \o <<"_">> \o Tag(p.dt) \o <<"_">> \o Uuid
                    out_dir == <<"TEMP_DIR", "/hls/">> \o session_id
                    hls == EnsureSession(temp.hls, out_dir)
                    pre == \E e \in hls.entries : e.name = out_dir /\ e.playlist
                    r == gen_hls_from_source(SrcArg(src), start_s, dur, out_dir, enc, pre)
                IN  /\ temp' = [temp EXCEPT !.hls =
                                    IF r.ran = 1 /\ r.wrote
                                    THEN WritePlaylist(hls, out_dir) ELSE hls]
                    /\ runs' = Started("view", r, out_dir)
                    /\ last' = Response("view", machine, ts, dur, "produce",
                                        SrcArg(src), out_dir, r)
                    /\ nreq' = nreq + 1
                    /\ UNCHANGED evid
    /\ ReqFrame

snapshot(machine, ts, enc) ==
    /\ LET p == parse_iso_ts(ts)
           cam == camera_for_machine(machine)
       IN  IF ~p.ok THEN Reject("snapshot", machine, ts, NoValue, 400)
           ELSE IF ~Truthy(cam) THEN Reject("snapshot", machine, ts, NoValue, 404)
           ELSE LET src == build_video_path(cam.cam, p.dt)
                    at_s == calc_anchor_and_offset(p.dt).offset
                    out == <<"TEMP_DIR", "/snap/">> \o machine \o <<"_">> \o Tag(p.dt)
                              \o <<".jpg">>
                    dir == EnsureTop(temp.snap)
                    r == gen_snapshot(SrcArg(src), at_s, out, enc, out \in Names(dir))
                IN  /\ temp' = [temp EXCEPT !.snap =
                                    IF r.ran = 1 /\ r.wrote THEN WriteFile(dir, out) ELSE dir]
                    /\ runs' = Started("snapshot", r, out)
                    /\ last' = Response("snapshot", machine, ts, NoValue, "produce",
                                        SrcArg(src), out, r)
                    /\ nreq' = nreq + 1
                    /\ UNCHANGED evid
    /\ ReqFrame

export_snapshot(machine, ts, enc) ==
    /\ LET p == parse_iso_ts(ts)
           cam == camera_for_machine(machine)
       IN  IF ~p.ok THEN Reject("export_snapshot", machine, ts, NoValue, 400)
           ELSE IF ~Truthy(cam) THEN Reject("export_snapshot", machine, ts, NoValue, 404)
           ELSE LET src == build_video_path(cam.cam, p.dt)
                    at_s == calc_anchor_and_offset(p.dt).offset
                    out == <<"EVID_DIR", "/snapshots/">> \o machine \o <<"_">>
                              \o Tag(p.dt) \o <<".jpg">>
                    dir == EnsureTop(evid.snapshots)
                    r == gen_snapshot(SrcArg(src), at_s, out, enc, out \in Names(dir))
                IN  /\ evid' = [evid EXCEPT !.snapshots =
                                    IF r.ran = 1 /\ r.wrote THEN WriteFile(dir, out) ELSE dir]
                    /\ runs' = Started("export_snapshot", r, out)
                    /\ last' = Response("export_snapshot", machine, ts, NoValue, "produce",
                                        SrcArg(src), out, r)
                    /\ nreq' = nreq + 1
                    /\ UNCHANGED temp
    /\ ReqFrame

export_clip(machine, ts, dur, enc) ==
    /\ LET p == parse_iso_ts(ts)
           cam == camera_for_machine(machine)
       IN  IF ~p.ok THEN Reject("export_clip", machine, ts, dur, 400)
           ELSE IF ~Truthy(cam) THEN Reject("export_clip", machine, ts, dur, 404)
           ELSE LET src == build_video_path(cam.cam, p.dt)
                    start_s == calc_anchor_and_offset(p.dt).offset
                    out == <<"EVID_DIR", "/clips/">> \o machine \o <<"_">> \o Tag(p.dt)
                              \o <<"_">> \o DecStr(dur) \o <<"s.mp4">>
                    dir == EnsureTop(evid.clips)
                    r == export_clip_ffmpeg(SrcArg(src), start_s, dur, out, enc,
                                            out \in Names(dir))
                IN  /\ evid' = [evid EXCEPT !.clips =
                                    IF r.ran = 1 /\ r.wrote THEN WriteFile(dir, out) ELSE dir]
                    /\ runs' = Started("export_clip", r, out)
                    /\ last' = Response("export_clip", machine, ts, dur, "produce",
                                        SrcArg(src), out, r)
                    /\ nreq' = nreq + 1
                    /\ UNCHANGED temp
    /\ ReqFrame

\* the file FFMPEG names is removed or put back while the server runs
SetEncoder(there) ==
    /\ ffmpeg # there
    /\ ffmpeg' = there
    /\ UNCHANGED <<SEG_MIN, tvars, mvars, SIMULATE, TTL_MIN, now, videos, temp, evid,
                   nreq, runs, last>>

(***************************************************************************)
(* The retention sweep.                                                    *)
(***************************************************************************)
\* one top-level item of TEMP_DIR.glob("*"): kept, or removed with all it holds
SweepItem(d, ttl_minutes) ==
    IF d.present /\ now - d.mtime > ttl_minutes THEN AbsentDir ELSE d

cleanup_old_temp(ttl_minutes) ==
    /\ temp' = [hls |-> SweepItem(temp.hls, ttl_minutes),
                snap |-> SweepItem(temp.snap, ttl_minutes)]
    /\ last' = [NoRequest EXCEPT !.op = "cleanup_old_temp", !.at = now]
    /\ UNCHANGED <<SEG_MIN, tvars, mvars, SIMULATE, TTL_MIN, now, ffmpeg, videos, evid,
                   nreq, runs>>

\* periodic_cleanup: one turn of the loop
periodic_cleanup == cleanup_old_temp(TTL_MIN)

\* time passes
Tick(limit) ==
    /\ now < limit
    /\ now' = now + 1
    /\ UNCHANGED <<SEG_MIN, tvars, mvars, SIMULATE, TTL_MIN, ffmpeg, videos, temp, evid,
                   nreq, runs, last>>

(***************************************************************************)
(* The parts a scenario leaves at rest.                                    *)
(***************************************************************************)
NoInput == [phase |-> "idle"]

TimeIdle == tin = NoInput /\ tout = NoInput

NoLists == [id \in ListIds |-> <<>>]

DefaultTtl == 30

ReqIdle ==
    /\ SIMULATE = TRUE
    /\ TTL_MIN = DefaultTtl
    /\ now = 0
    /\ ffmpeg = TRUE
    /\ videos = {}
    /\ temp = EmptyTemp
    /\ evid = EmptyEvid
    /\ nreq = 0
    /\ runs = {}
    /\ last = NoRequest

MapIdle ==
    /\ csv = [exists |-> FALSE, rows |-> <<>>]
    /\ heap = NoLists
    /\ MACHINE_MAP = 1
    /\ loader = LoaderDone
    /\ lookup = LookupIdle

(***************************************************************************)
(* Resolver scenario: the inputs are drawn at the start, one step applies  *)
(* parse_iso_ts, calc_anchor_and_offset and build_video_path to them.      *)
(***************************************************************************)
MaxSegMin == 10
HourSegMin == 60

SegMinChoices == (1..MaxSegMin) \cup {HourSegMin, HourSegMin + MaxSegMin}

TimeCameras == {<<"C", "A", "M", "0", "7">>, <<"C", "2">>}

TimeStamps ==
    [year : {2025}, month : {8}, day : {1}, hour : {13},
     minute : 0..59, second : {0, 14, 59}, microsecond : {0, 999999},
     tz : {""}]
    \cup
    [year : {2025}, month : {8}, day : {1}, hour : {13},
     minute : {12, 16}, second : {14}, microsecond : {0}, tz : {"Z"}]
    \cup
    [year : {2024, 2025}, month : {2, 12}, day : {29, 31}, hour : {23, 24},
     minute : {59}, second : {59}, microsecond : {999999}, tz : {"+05:30"}]


TimeInit ==
    /\ SEG_MIN \in SegMinChoices
    /\ tin \in [phase : {"drawn"}, camera : TimeCameras, ts : TimeStamps]
    /\ tout = NoInput
    /\ MapIdle
    /\ ReqIdle

TimeResolve ==
    /\ tin.phase = "drawn"
    /\ tout = NoInput
    /\ LET p == parse_iso_ts(tin.ts)
       IN  /\ p.ok
           /\ LET ao == calc_anchor_and_offset(p.dt)
              IN  tout' = [phase |-> "resolved", dt |-> p.dt,
                           anchor |-> ao.anchor, offset |-> ao.offset,
                           path |-> build_video_path(tin.camera, p.dt)]
    /\ UNCHANGED <<SEG_MIN, tin, mvars, rvars>>

TimeReject ==
    /\ tin.phase = "drawn"
    /\ tout = NoInput
    /\ ~parse_iso_ts(tin.ts).ok
    /\ tout' = [phase |-> "rejected", status |-> parse_iso_ts(tin.ts).status]
    /\ UNCHANGED <<SEG_MIN, tin, mvars, rvars>>

TimeNext == TimeResolve \/ TimeReject

SpecTime == TimeInit /\ [][TimeNext]_vars

(***************************************************************************)
(* Table scenario: a file is drawn, the import loads it, lookups follow.   *)
(***************************************************************************)
MaxRows == 3

CsvRows ==
    [Machine_ID : {<<"M">>, <<"K", " ">>},
     camera_id : {<<"A">>, <<" ", "B">>},
     priority : {<<>>, <<"2">>, <<"1", "0">>, <<"x">>}]

RECURSIVE SeqsUpTo(_, _)
SeqsUpTo(S, n) ==
    IF n = 0 THEN {<<>>}
    ELSE LET shorter == SeqsUpTo(S, n - 1)
         IN  shorter \cup {Append(q, x) : q \in shorter, x \in S}

CsvFiles ==
    {[exists |-> FALSE, rows |-> <<>>]}
        \cup {[exists |-> TRUE, rows |-> q] : q \in SeqsUpTo(CsvRows, MaxRows)}

Machines == {<<"M">>, <<"K">>, <<"U">>}

MapInit ==
    /\ SEG_MIN = 10
    /\ TimeIdle
    /\ csv \in CsvFiles
    /\ heap = NoLists
    /\ MACHINE_MAP = 0
    /\ loader = LoaderIdle
    /\ lookup = LookupIdle
    /\ ReqIdle

MapNext ==
    \/ ImportMap
    \/ \E machine \in Machines : Lookup(machine)

SpecMap == MapInit /\ [][MapNext]_vars

(***************************************************************************)
(* Reload scenario: the startup reload and lookups, step by step.          *)
(***************************************************************************)
MaxReloadRows == 2

ReloadRows ==
    {[Machine_ID |-> <<"M">>, camera_id |-> <<"A">>, priority |-> <<"2">>],
     [Machine_ID |-> <<"M">>, camera_id |-> <<"B">>, priority |-> <<>>],
     [Machine_ID |-> <<"K">>, camera_id |-> <<"A">>, priority |-> <<>>]}

ReloadFiles ==
    {[exists |-> FALSE, rows |-> <<>>]}
        \cup {[exists |-> TRUE, rows |-> q] : q \in SeqsUpTo(ReloadRows, MaxReloadRows)}

ReloadInit ==
    /\ SEG_MIN = 10
    /\ TimeIdle
    /\ csv \in ReloadFiles
    /\ heap = [NoLists EXCEPT ![1] = load_machine_map(csv)]
    /\ MACHINE_MAP = 1
    /\ loader = LoaderIdle
    /\ lookup = LookupIdle
    /\ ReqIdle

ReloadNext ==
    \/ LoadBegin
    \/ LoadRow
    \/ LoadSort
    \/ LoadAssign
    \/ \E machine \in Machines : LookupBegin(machine)
    \/ LookupNext
    \/ LookupReturn
    \/ \E file \in ReloadFiles : EditCsv(file)

SpecReload == ReloadInit /\ [][ReloadNext]_vars

(***************************************************************************)
(* Request scenario: the server after startup, requests one after another, *)
(* the encoder binary coming and going.                                    *)
(***************************************************************************)
MaxReq == 2

ReqFile ==
    [exists |-> TRUE,
     rows |-> <<[Machine_ID |-> <<"M">>, camera_id |-> <<"B">>, priority |-> <<"2">>],
                [Machine_ID |-> <<"M">>, camera_id |-> <<"A">>, priority |-> <<>>],
                [Machine_ID |-> <<"K">>, camera_id |-> <<>>, priority |-> <<>>]>>]

ReqMachines == {<<"M">>, <<"U">>}

GoodStamp ==
    [year |-> 2025, month |-> 8, day |-> 1, hour |-> 13, minute |-> 16,
     second |-> 14, microsecond |-> 0, tz |-> ""]

BadStamp == [GoodStamp EXCEPT !.month = 13]

ReqStamps == {GoodStamp, BadStamp}

Durations == {5, 30}

EncoderRuns == [rc : {0, 1}, wrote : BOOLEAN]

ReqInit ==
    /\ SEG_MIN = 10
    /\ TimeIdle
    /\ csv = ReqFile
    /\ heap = [NoLists EXCEPT ![1] = load_machine_map(csv)]
    /\ MACHINE_MAP = 1
    /\ loader = LoaderDone
    /\ lookup = LookupIdle
    /\ SIMULATE \in BOOLEAN
    /\ TTL_MIN = DefaultTtl
    /\ now = 0
    /\ ffmpeg \in BOOLEAN
    /\ SIMULATE \/ ffmpeg
    /\ videos \in SUBSET {build_video_path(<<"A">>, parse_iso_ts(GoodStamp).dt)}
    /\ temp = EmptyTemp
    /\ evid = EmptyEvid
    /\ nreq = 0
    /\ runs = {}
    /\ last = NoRequest

ReqNext ==
    \/ \E machine \in ReqMachines, ts \in ReqStamps :
          nreq < MaxReq /\ debug_resolve(machine, ts)
    \/ \E machine \in ReqMachines, ts \in ReqStamps, dur \in Durations, enc \in EncoderRuns :
          nreq < MaxReq /\ view(machine, ts, dur, enc)
    \/ \E machine \in ReqMachines, ts \in ReqStamps, enc \in EncoderRuns :
          nreq < MaxReq /\ snapshot(machine, ts, enc)
    \/ \E machine \in ReqMachines, ts \in ReqStamps, enc \in EncoderRuns :
          nreq < MaxReq /\ export_snapshot(machine, ts, enc)
    \/ \E machine \in ReqMachines, ts \in ReqStamps, dur \in Durations, enc \in EncoderRuns :
          nreq < MaxReq /\ export_clip(machine, ts, dur, enc)
    \/ \E there \in BOOLEAN : SetEncoder(there)

SpecReq == ReqInit /\ [][ReqNext]_vars

(***************************************************************************)
(* Sweep scenario: views and snapshots, the clock, and the periodic sweep. *)
(***************************************************************************)
MaxTime == 3
MaxTtl == 2

SweepInit ==
    /\ SEG_MIN = 10
    /\ TimeIdle
    /\ csv = ReqFile
    /\ heap = [NoLists EXCEPT ![1] = load_machine_map(csv)]
    /\ MACHINE_MAP = 1
    /\ loader = LoaderDone
    /\ lookup = LookupIdle
    /\ SIMULATE = TRUE
    /\ TTL_MIN \in 1..MaxTtl
    /\ now = 0
    /\ ffmpeg = TRUE
    /\ videos = {}
    /\ temp = EmptyTemp
    /\ evid = EmptyEvid
    /\ nreq = 0
    /\ runs = {}
    /\ last = NoRequest

SweepNext ==
    \/ \E enc \in EncoderRuns : nreq < MaxReq /\ view(<<"M">>, GoodStamp, 30, enc)
    \/ \E enc \in EncoderRuns : nreq < MaxReq /\ snapshot(<<"M">>, GoodStamp, enc)
    \/ periodic_cleanup
    \/ Tick(MaxTime)

SpecSweep == SweepInit /\ [][SweepNext]_vars

(***************************************************************************)
(* Claims on the resolver.                                                 *)
(***************************************************************************)
\* C1: for every timestamp and every segment length N >= 1, the anchor of the
\* anchor is the anchor, the anchor has zero seconds and microseconds and the
\* request's year, month, day and hour, and the offset of the request from
\* its anchor is an integer in [0, N*60).
C1_AnchorIdempotentOffsetInRange ==
    tout.phase = "resolved" =>
        /\ segment_anchor(tout.anchor, SEG_MIN) = tout.anchor
        /\ tout.anchor.second = 0 /\ tout.anchor.microsecond = 0
        /\ tout.anchor.year = tout.dt.year /\ tout.anchor.month = tout.dt.month
        /\ tout.anchor.day = tout.dt.day /\ tout.anchor.hour = tout.dt.hour
        /\ tout.offset \in 0..(SEG_MIN * 60 - 1)
        /\ offset_within_segment(tout.anchor, tout.anchor) = 0

C1_Witness ==
    /\ tout.phase = "resolved"
    /\ SEG_MIN = 7
    /\ tout.dt.minute = 59 /\ tout.dt.second = 59 /\ tout.dt.microsecond = 999999
    /\ tout.anchor.minute = 56
    /\ tout.offset = 239

\* two datetimes lie in the same segment window: same hour of the same day,
\* same N-minute slot of that hour
SameWindow(a, b) ==
    /\ a.year = b.year /\ a.month = b.month /\ a.day = b.day /\ a.hour = b.hour
    /\ a.minute \div SEG_MIN = b.minute \div SEG_MIN

\* C2: any two request timestamps of the same segment window resolve, for the
\* same camera, to the identical path; the path is the template filled with
\* the six fields of the segment anchor; with N = 10 a request at 13:16:14
\* has anchor 13:10:00, offset 374 and a file name encoding 13, 10, 00.
C2_SameWindowSamePath ==
    tout.phase = "resolved" =>
        /\ \A ts2 \in TimeStamps :
              (parse_iso_ts(ts2).ok /\ SameWindow(tout.dt, parse_iso_ts(ts2).dt))
                  => build_video_path(tin.camera, parse_iso_ts(ts2).dt) = tout.path
        /\ tout.path = FilledTemplate([camera_id |-> tin.camera,
               YYYY |-> Pad4(tout.anchor.year), MM |-> Pad2(tout.anchor.month),
               DD |-> Pad2(tout.anchor.day), HH |-> Pad2(tout.anchor.hour),
               mm |-> Pad2(tout.anchor.minute), SS |-> Pad2(tout.anchor.second)])
        /\ (SEG_MIN = 10 /\ tout.dt.hour = 13 /\ tout.dt.minute = 16
                /\ tout.dt.second = 14 /\ tout.dt.microsecond = 0)
              => /\ tout.anchor.hour = 13 /\ tout.anchor.minute = 10
                 /\ tout.anchor.second = 0
                 /\ tout.offset = 374
                 /\ SubSeq(tout.path, Len(tout.path) - 9, Len(tout.path))
                      = <<"1", "3", "1", "0", "0", "0", ".", "m", "p", "4">>

C2_Witness ==
    /\ tout.phase = "resolved"
    /\ SEG_MIN = 10
    /\ tin.ts.tz = ""
    /\ tout.dt.hour = 13 /\ tout.dt.minute = 16 /\ tout.dt.second = 14
    /\ tout.dt.microsecond = 0
    /\ tout.offset = 374

(***************************************************************************)
(* Claims on the machine-to-camera table.                                  *)
(***************************************************************************)
\* the rows of the file that load_machine_map keeps for the machine
RowsFor(file, machine) ==
    IF ~file.exists THEN {}
    ELSE {i \in 1..Len(file.rows) :
            RowOk(file.rows[i]) /\ Strip(file.rows[i].Machine_ID) = machine}

\* among them, the earliest row of the smallest priority
Preferred(file, machine) ==
    CHOOSE i \in RowsFor(file, machine) :
        \A j \in RowsFor(file, machine) :
            \/ ParseRow(file.rows[i]).p < ParseRow(file.rows[j]).p
            \/ ParseRow(file.rows[i]).p = ParseRow(file.rows[j]).p /\ i <= j

\* C3: after the load, camera_for_machine(m) is the camera of the loaded row
\* for m with the smallest priority, the earliest such row of the file on a
\* tie, and it is none exactly when no row for m was loaded.
C3_LowestPriorityEarliestRow ==
    lookup.pc = "done" =>
        /\ (lookup.result = None) <=> (RowsFor(csv, lookup.machine) = {})
        /\ RowsFor(csv, lookup.machine) # {} =>
              lookup.result
                = Some(Strip(csv.rows[Preferred(csv, lookup.machine)].camera_id))

C3_Witness ==
    /\ lookup.pc = "done"
    /\ lookup.result.found
    /\ \E i, j, k \in RowsFor(csv, lookup.machine) :
          /\ i < j /\ j < k
          /\ ParseRow(csv.rows[i]).p > ParseRow(csv.rows[j]).p
          /\ ParseRow(csv.rows[j]).p = ParseRow(csv.rows[k]).p
          /\ ParseRow(csv.rows[j]).c # ParseRow(csv.rows[k]).c
          /\ ParseRow(csv.rows[j]).c # ParseRow(csv.rows[i]).c
          /\ lookup.result = Some(ParseRow(csv.rows[j]).c)

\* C8: a lookup that runs while the table is reloaded answers from the whole
\* old table or from the whole new table, never from a mixture of the two.
C8_LookupSeesOneWholeTable ==
    lookup.pc = "done" =>
        \/ lookup.result = FirstOrNone(Candidates(lookup.old, lookup.machine))
        \/ lookup.result = FirstOrNone(Candidates(lookup.new, lookup.machine))

C8_Witness ==
    /\ lookup.pc = "done"
    /\ lookup.old # lookup.new
    /\ lookup.result.found
    /\ FirstOrNone(Candidates(lookup.new, lookup.machine)).found
    /\ FirstOrNone(Candidates(lookup.old, lookup.machine))
          # FirstOrNone(Candidates(lookup.new, lookup.machine))

(***************************************************************************)
(* Claims on the requests.                                                 *)
(***************************************************************************)
RequestOps == {"view", "snapshot", "export_snapshot", "export_clip", "debug_resolve"}

\* a step that handles a request for a machine no loaded row names
UnmappedRequest ==
    /\ nreq' = nreq + 1
    /\ last'.op \in RequestOps
    /\ camera_for_machine(last'.machine) = None

NoSideEffect == temp' = temp /\ evid' = evid /\ runs' = runs

\* C4 as stated: every request for an unmapped machine fails with 404 and
\* leaves the temporary root, the evidence root and the encoder untouched.
C4_UnmappedAlways404 ==
    [][UnmappedRequest => (last'.status = 404 /\ NoSideEffect)]_vars

\* C4 as amended: a request for an unmapped machine fails with 404 when its
\* timestamp parses and with 400 when it does not, and in both cases leaves
\* the temporary root, the evidence root and the encoder untouched.
C4_UnmappedRejectedNoSideEffect ==
    [][UnmappedRequest =>
          /\ last'.status = (IF parse_iso_ts(last'.ts).ok THEN 404 ELSE 400)
          /\ NoSideEffect]_vars

C4_Witness ==
    /\ last.op = "export_clip"
    /\ camera_for_machine(last.machine) = None
    /\ parse_iso_ts(last.ts).ok
    /\ last.status = 404
    /\ nreq = 2
    /\ temp.hls.present

\* C5: with the source missing and simulation disabled, each production
\* operation fails with 404 and starts no encoder, whether or not the encoder
\* binary is present.
C5_MissingSourceNoSimulation404 ==
    (last.stage = "produce" /\ last.srcMissing /\ ~SIMULATE) =>
        (last.status = 404 /\ last.ran = 0)

\* C6: with the source missing and simulation enabled each production
\* operation takes the synthetic mode, succeeds when the encoder is present,
\* exits zero and the output exists, and its command has neither the source
\* path nor the offset, only the duration and the output location; with the
\* source present the real mode is taken whatever the simulation flag.
C6_ModeSelection ==
    last.stage = "produce" =>
        /\ (last.srcMissing /\ SIMULATE) =>
              /\ last.mode = "synthetic"
              /\ (last.ran = 1 /\ last.rc = 0 /\ last.present) => last.status = 200
              /\ last.ran = 1 =>
                    /\ last.cmd.lavfi
                    /\ last.cmd.ss = NoSeek
                    /\ last.cmd.i = NoPath
                    /\ last.cmd.t = (IF last.op \in {"view", "export_clip"}
                                     THEN last.dur ELSE NoValue)
                    /\ last.cmd.out = (IF last.op = "view"
                                       THEN last.out \o <<"/master.m3u8">>
                                       ELSE last.out)
        /\ ~last.srcMissing => last.mode = "real"
        /\ (~last.srcMissing /\ last.ran = 1) =>
              /\ ~last.cmd.lavfi
              /\ last.cmd.ss = calc_anchor_and_offset(parse_iso_ts(last.ts).dt).offset
              /\ last.cmd.i \in videos

C6_Witness ==
    /\ last.op = "export_clip"
    /\ last.stage = "produce"
    /\ last.srcMissing /\ SIMULATE
    /\ last.mode = "synthetic"
    /\ last.ran = 1
    /\ last.status = 200
    /\ last.cmd.t = 30

\* C9: a request starts at most one encoder process; a production operation
\* succeeds only if that run exited zero and the output exists afterwards,
\* and otherwise fails with 500 with no second run.
C9_SingleAttemptFailFast ==
    /\ last.ran \in {0, 1}
    /\ Cardinality({r \in runs : r.req = nreq}) <= 1
    /\ (last.stage = "produce" /\ last.status = 200) =>
          (last.ran = 1 /\ last.rc = 0 /\ last.present)
    /\ (last.ran = 1 /\ (last.rc # 0 \/ ~last.present)) => last.status = 500

C9_Witness ==
    /\ last.op = "view"
    /\ last.ran = 1
    /\ last.rc = 0
    /\ ~last.present
    /\ last.status = 500

\* C10: any two distinct streaming or export requests have their encoder
\* runs write to different locations.
C10_DistinctRequestsDistinctOutputs ==
    \A a, b \in runs :
        (a.req # b.req /\ {a.op, b.op} \subseteq {"view", "export_snapshot", "export_clip"})
            => a.out # b.out

(***************************************************************************)
(* Claims on the retention sweep.                                          *)
(***************************************************************************)
Sessions(t) == IF t.hls.present THEN t.hls.entries ELSE {}

\* C7: after one run of cleanup_old_temp every session directory older than
\* the time-to-live is gone, and every one younger than it is still there
\* with its contents.
C7_SweepRemovesExpiredSessions ==
    [][cleanup_old_temp(TTL_MIN) =>
          \A e \in Sessions(temp) :
              /\ now - e.mtime > TTL_MIN => e.name \notin Names(temp'.hls)
              /\ now - e.mtime < TTL_MIN => e \in Sessions(temp')]_vars

====
